---- MODULE Spec2Model ----
(***************************************************************************)
(* Model of DecisionEngine (src/decision_engine.py): the decision policy   *)
(* make_decision with its critical-pattern override, and the pending-      *)
(* decisions queue drained by get_pending_decisions; and of the per-sender *)
(* transaction history of RiskAnalyzer that the tests in                   *)
(* src/agent/tests/test_risk_analyzer.py exercise.                         *)
(*                                                                         *)
(* Python values are tagged records, so that an int, a str, None and a     *)
(* dict can meet in one comparison the way they do in Python. Text that    *)
(* the code searches (str(metadata).lower()) is a sequence of one-         *)
(* character strings. Risk scores and amounts are Python floats in the     *)
(* code and integers here: every threshold of the code is an integer.      *)
(***************************************************************************)
EXTENDS Integers, Sequences, FiniteSets, TLC

VARIABLES
    pending_decisions,    \* self.pending_decisions: the list of queued decisions
    args,                 \* the arguments of the latest make_decision call
    result,               \* what the latest make_decision call returned
    decisions,            \* the local `decisions` of a running get_pending_decisions
    drain_pc,             \* where the consumer's get_pending_decisions stands
    appended,             \* history: every decision appended, in append order
    drained,              \* history: the lists get_pending_decisions returned
    last_op,              \* history: the operation that returned last
    calls,                \* history: the number of make_decision calls made
    transaction_history,  \* RiskAnalyzer.transaction_history: sender -> records
    history_log,          \* history: per sender, every record ever appended
    risk_threshold,       \* self.risk_threshold, in hundredths (0.75 is 75)
    other_threshold,      \* a second engine: its risk_threshold
    other_pending,        \* a second engine: its pending_decisions
    other_args,           \* a second engine: the arguments of its latest call
    other_result,         \* a second engine: what its latest call returned
    other_calls           \* history: the second engine's make_decision calls

vars == <<pending_decisions, args, result, decisions, drain_pc, appended,
          drained, last_op, calls, transaction_history, history_log,
          risk_threshold, other_threshold, other_pending, other_args,
          other_result, other_calls>>

engine_vars == <<pending_decisions, args, result, decisions, drain_pc,
                 appended, drained, last_op, calls>>

history_vars == <<transaction_history, history_log>>

config_vars == <<risk_threshold, other_threshold>>

other_vars == <<other_pending, other_args, other_result, other_calls>>

(***************************************************************************)
(* Python values                                                           *)
(***************************************************************************)
PyNone == [type |-> "NoneType"]
PyNum(n) == [type |-> "int", v |-> n]
PyNaN == [type |-> "float", nan |-> TRUE]
PyStr(chars) == [type |-> "str", v |-> chars]
PyDict(items) == [type |-> "dict", v |-> items]
PyIso(text) == [type |-> "str", iso |-> text]

\* None in a field that otherwise holds a plain string (action, reason).
None == "None"

\* What the absence of a value is written as in a model variable.
NoCall == [type |-> "nothing"]

\* d.get(key) with the default left out: None for a missing key.
DictGetNoDefault(d, key, default) ==
    IF key \in DOMAIN d.items THEN d.items[key] ELSE PyNone

\* d.get(key, default) of a Python dict whose items are a function from
\* its keys.
DictGet(d, key, default) ==
    IF key \in DOMAIN d.items THEN d.items[key] ELSE default

\* Whether x has a get method; otherwise x.get raises AttributeError.
HasGet(x) == x.type = "dict"

AttributeErrorMessage(x) ==
    "'" \o x.type \o "' object has no attribute 'get'"

\* Whether Python can order x against an int literal; otherwise the
\* comparison raises TypeError.
Comparable(x) == x.type \in {"int", "float"}

TypeErrorMessage(op, x) ==
    "'" \o op \o "' not supported between instances of '"
        \o x.type \o "' and 'int'"

\* x <= n where the code has x < n.
PyLessOrEqual(x, n) == x.type = "int" /\ x.v <= n

\* x < n and x > n for a comparable x: every comparison with NaN is False.
PyLess(x, n) == x.type = "int" /\ x.v < n
PyGreater(x, n) == x.type = "int" /\ x.v > n


(***************************************************************************)
(* Text: str(metadata).lower() and the `keyword in metadata_str` search    *)
(***************************************************************************)
UpperLetters == <<"A", "B", "C", "D", "E", "F", "G", "H", "I", "J", "K", "L",
                  "M", "N", "O", "P", "Q", "R", "S", "T", "U", "V", "W", "X",
                  "Y", "Z">>
LowerLetters == <<"a", "b", "c", "d", "e", "f", "g", "h", "i", "j", "k", "l",
                  "m", "n", "o", "p", "q", "r", "s", "t", "u", "v", "w", "x",
                  "y", "z">>

\* str.lower() on one character and on a text.
LowerChar(c) ==
    IF \E i \in 1..Len(UpperLetters) : UpperLetters[i] = c
    THEN LowerLetters[CHOOSE i \in 1..Len(UpperLetters) : UpperLetters[i] = c]
    ELSE c
Lower(text) == [i \in 1..Len(text) |-> LowerChar(text[i])]

\* `needle in hay` on Python strings: needle is a substring of hay.
Contains(needle, hay) ==
    \E i \in 1..(Len(hay) - Len(needle) + 1) :
        SubSeq(hay, i, i + Len(needle) - 1) = needle

\* repr of a str key or value inside a dict: the text in single quotes.
Quoted(text) == <<"'">> \o text \o <<"'">>

RECURSIVE ItemsRepr(_)
ItemsRepr(items) ==
    IF items = <<>> THEN <<>>
    ELSE Quoted(items[1][1]) \o <<":", " ">> \o Quoted(items[1][2])
         \o (IF Len(items) > 1 THEN <<",", " ">> ELSE <<>>)
         \o ItemsRepr(Tail(items))

\* str(x) for the values metadata takes: a dict of str to str, None, a str.
Str(x) ==
    CASE x.type = "dict" -> <<"{">> \o ItemsRepr(x.v) \o <<"}">>
      [] x.type = "NoneType" -> <<"N", "o", "n", "e">>
      [] x.type = "str" -> x.v

suspicious_keywords ==
    << <<"e", "x", "p", "l", "o", "i", "t">>,
       <<"h", "a", "c", "k">>,
       <<"d", "r", "a", "i", "n">>,
       <<"r", "u", "g">> >>

(***************************************************************************)
(* DecisionEngine._check_critical_patterns and DecisionEngine.make_decision*)
(***************************************************************************)
\* An operator that may raise returns [raised |-> FALSE, value |-> v] or
\* [raised |-> TRUE, exc |-> str(e)].
Returned(v) == [raised |-> FALSE, value |-> v]
Raised(message) == [raised |-> TRUE, exc |-> message]

\* The cutoff taken inclusive: amount >= 100000.
AmountIsCriticalInclusive(amount) == amount.type = "int" /\ amount.v >= 100000

\* Pattern 1: payment_data.get('amount', 0) > 100000
AmountIsCritical(amount) == PyGreater(amount, 100000)

\* Pattern 2: any(keyword in str(metadata).lower())
MetadataIsCritical(metadata) ==
    LET metadata_str == Lower(Str(metadata))
    IN  \E k \in 1..Len(suspicious_keywords) :
            Contains(suspicious_keywords[k], metadata_str)

_check_critical_patterns(payment_data) ==
    LET amount == DictGet(payment_data, "amount", PyNum(0))
        metadata == DictGet(payment_data, "metadata", PyDict(<<>>))
    IN  IF ~Comparable(amount) THEN Raised(TypeErrorMessage(">", amount))
        ELSE IF AmountIsCritical(amount) THEN Returned(TRUE)
        ELSE Returned(MetadataIsCritical(metadata))

\* decision[key] = value on a dict, adding the key when it is new.
SetItem(d, key, value) ==
    [k \in DOMAIN d \cup {key} |-> IF k = key THEN value ELSE d[k]]

\* Lines 98-104: the decision dict as first built.
NewDecision(payment_id, risk_score, payment_data) ==
    [payment_id |-> payment_id,
     risk_score |-> risk_score,
     timestamp  |-> DictGet(payment_data, "timestamp", PyNone),
     action     |-> None,
     reason     |-> None]

\* Lines 106-131: the if/elif chain on risk_score (risk_score comparable).
ThresholdLadder(decision, risk_score) ==
    IF PyLess(risk_score, 20) THEN
        [decision EXCEPT !.action = "approve",
                         !.reason = "Very low risk transaction"]
    ELSE IF PyLess(risk_score, 40) THEN
        [decision EXCEPT !.action = "approve",
                         !.reason = "Low risk transaction"]
    ELSE IF PyLess(risk_score, 60) THEN
        [decision EXCEPT !.action = "verify_zk_proof",
                         !.reason = "Medium risk - additional verification required"]
    ELSE IF PyLess(risk_score, 80) THEN
        SetItem([decision EXCEPT !.action = "enhance_privacy",
                                 !.reason = "High risk - enhanced privacy measures applied"],
                "privacy_level", "high")
    ELSE
        [decision EXCEPT !.action = "flag",
                         !.reason = "Very high risk - flagged for manual review"]

\* Lines 134-136: the override sets action and reason, nothing else.
CriticalOverride(decision) ==
    [decision EXCEPT !.action = "flag",
                     !.reason = "Critical risk pattern detected"]

\* The except branch with the exception's text left out of the reason.
FallbackDecisionNoMessage(payment_id, message) ==
    [payment_id |-> payment_id,
     action     |-> "flag",
     reason     |-> "Error in decision making"]

\* Lines 144-150: the dict the except branch returns.
FallbackDecision(payment_id, message) ==
    [payment_id |-> payment_id,
     action     |-> "flag",
     reason     |-> "Error in decision making: " \o message]

\* make_decision on an engine whose queue is `queue`: the dict returned and
\* the queue afterwards. The except branch returns without appending.
make_decision(queue, payment_id, risk_score, payment_data) ==
    LET decision == NewDecision(payment_id, risk_score, payment_data)
    IN  IF ~HasGet(payment_data)
        THEN [returned |-> FallbackDecision(payment_id,
                                            AttributeErrorMessage(payment_data)),
              pending  |-> queue]
        ELSE IF ~Comparable(risk_score)
        THEN [returned |-> FallbackDecision(payment_id,
                                            TypeErrorMessage("<", risk_score)),
              pending  |-> queue]
        ELSE LET laddered == ThresholdLadder(decision, risk_score)
                 critical == _check_critical_patterns(payment_data)
             IN  IF critical.raised
                 THEN [returned |-> FallbackDecision(payment_id, critical.exc),
                       pending  |-> queue]
                 ELSE LET final == IF critical.value
                                   THEN CriticalOverride(laddered)
                                   ELSE laddered
                      IN  [returned |-> final,
                           pending  |-> Append(queue, final)]

\* make_decision with the threshold ladder's last rung moved to the
\* configured self.risk_threshold: a score at or above it is flagged.
engine_make_decision_gated(self, payment_id, risk_score, payment_data) ==
    LET out == make_decision(self.pending_decisions, payment_id, risk_score,
                             payment_data)
        gated == [out.returned EXCEPT
                      !.action = "flag",
                      !.reason = "Risk score above configured threshold"]
    IN  IF /\ risk_score.type = "int"
           /\ risk_score.v >= self.risk_threshold
           /\ Len(out.pending) > Len(self.pending_decisions)
        THEN [returned |-> gated,
              pending  |-> Append(self.pending_decisions, gated)]
        ELSE out

\* The method on an engine `self`: of the engine's fields it reads and
\* writes self.pending_decisions only; self.risk_threshold, set at line 21,
\* is not read.
engine_make_decision(self, payment_id, risk_score, payment_data) ==
    make_decision(self.pending_decisions, payment_id, risk_score, payment_data)

\* config.get('risk_threshold', 0.75), in hundredths.
DefaultRiskThreshold == 75

(***************************************************************************)
(* DecisionEngine.get_pending_decisions                                    *)
(***************************************************************************)
\* Line 211: decisions = self.pending_decisions.copy()
ListCopy(queue) == queue

\* The clear left out: the queue keeps what was copied.
ListClearSkipped(queue) == queue

\* Line 212: self.pending_decisions.clear()
ListClear(queue) == <<>>

\* The copy left out: `decisions = self.pending_decisions`, so that the list
\* returned is the queue's own list object.
ReturnedListIsQueueObjectAliased == TRUE

\* Whether a list get_pending_decisions returned is the very list object
\* self.pending_decisions holds: copy() at line 211 makes a new list, and
\* clear() at line 212 keeps the queue's own, so it is not.
ReturnedListIsQueueObject == FALSE

\* What the lists returned so far hold once the queue object holds `queue`:
\* a list that is the queue object holds what the queue holds.
ReturnedLists(lists, queue) ==
    IF ReturnedListIsQueueObject
    THEN [i \in 1..Len(lists) |-> queue]
    ELSE lists

\* An await (a log or metrics call) put between the copy and the clear.
AwaitsBetweenCopyAndClearAdded == TRUE

\* Whether get_pending_decisions hands control back to the event loop
\* between lines 211 and 212: the body holds no await, so it does not.
AwaitsBetweenCopyAndClear == FALSE

(***************************************************************************)
(* Inputs                                                                  *)
(***************************************************************************)
\* A key the caller left out of payment_data.
Absent == [type |-> "absent"]

\* The payment_data dict with the given values, a key present only when its
\* value is not Absent.
PaymentData(amount, metadata, timestamp) ==
    LET given == [k \in {"amount", "metadata", "timestamp"} |->
                    CASE k = "amount" -> amount
                      [] k = "metadata" -> metadata
                      [] k = "timestamp" -> timestamp]
    IN  [type |-> "dict",
         items |-> [k \in {key \in DOMAIN given : given[key] # Absent} |->
                      given[k]]]

PaymentIds == {"0xa1", "0xb2"}

Timestamp == PyIso("2024-01-01T14:00:00")

purpose == <<"p", "u", "r", "p", "o", "s", "e">>
note == <<"n", "o", "t", "e">>

InvoiceMetadata ==
    PyDict(<< <<purpose, <<"i", "n", "v", "o", "i", "c", "e">> >> >>)
HackMetadata ==
    PyDict(<< <<purpose, <<"t", "e", "s", "t", " ", "h", "a", "c", "k">> >> >>)
UpperExploitMetadata ==
    PyDict(<< <<note, <<"E", "X", "P", "L", "O", "I", "T">> >> >>)
DrainKeyMetadata ==
    PyDict(<< <<<<"d", "r", "a", "i", "n">>, <<"x">> >> >>)
ShrugMetadata ==
    PyDict(<< <<purpose, <<"r", "e", "n", "t">> >>,
              <<note, <<"S", "h", "r", "u", "g">> >> >>)
TwoKeyMetadata ==
    PyDict(<< <<purpose, <<"r", "e", "n", "t">> >>,
              <<note, <<"p", "a", "i", "d">> >> >>)

\* The inputs of the policy specification: both sides of every threshold,
\* scores outside [0, 100], NaN, scores and amounts that are no number at
\* all, and a payment_data that is None instead of a dict.
PolicyScores ==
    {PyNum(n) : n \in {-5, 0, 19, 20, 21, 39, 40, 41, 59, 60, 61, 79, 80, 81,
                       99, 100, 120}}
        \cup {PyNaN, PyNone, PyStr(<<"h", "i", "g", "h">>)}

PolicyAmounts ==
    {Absent, PyNum(0), PyNum(500), PyNum(100000), PyNum(100001),
     PyNum(250000), PyNaN, PyNone, PyStr(<<"1", "0", "0", "0">>)}

PolicyMetadatas ==
    {Absent, PyDict(<<>>), PyNone, InvoiceMetadata, TwoKeyMetadata,
     HackMetadata, UpperExploitMetadata, DrainKeyMetadata, ShrugMetadata}

PolicyPayments ==
    {PaymentData(a, m, t) : a \in PolicyAmounts, m \in PolicyMetadatas,
                            t \in {Absent, Timestamp}}
        \cup {PyNone}

\* The inputs of the queue specification: one payment of each kind.
CleanPayment == PaymentData(PyNum(500), InvoiceMetadata, Timestamp)
CriticalPayment == PaymentData(PyNum(250000), InvoiceMetadata, Timestamp)
MalformedPayment == PaymentData(PyStr(<<"1", "0", "0", "0">>), Absent, Absent)

QueueScores == {PyNum(10), PyNum(70)}
QueuePayments == {CleanPayment, CriticalPayment, MalformedPayment}

Producers == {"producer1", "producer2"}

\* Each producer task decides on its own payment.
PaymentOf(task) == IF task = "producer1" THEN "0xa1" ELSE "0xb2"

MaxCalls == 3
MaxDrains == 2

(***************************************************************************)
(* RiskAnalyzer._update_transaction_history (risk_analyzer.py is not in    *)
(* the sources; modelled from the specification of HistoryStore and the    *)
(* tests that call it)                                                     *)
(***************************************************************************)
HistoryCap == 100

\* The cap enforced by dropping the newest records instead of the oldest.
_update_transaction_history_keep_oldest(history, sender, transaction) ==
    LET old == IF sender \in DOMAIN history THEN history[sender] ELSE <<>>
        new == Append(old, transaction)
        kept == IF Len(new) > HistoryCap THEN SubSeq(new, 1, HistoryCap) ELSE new
    IN  [s \in DOMAIN history \cup {sender} |->
            IF s = sender THEN kept ELSE history[s]]

\* record(sender, HistoryRecord): append, then keep the newest HistoryCap.
_update_transaction_history(history, sender, transaction) ==
    LET old == IF sender \in DOMAIN history THEN history[sender] ELSE <<>>
        new == Append(old, transaction)
        kept == IF Len(new) > HistoryCap
                THEN SubSeq(new, Len(new) - HistoryCap + 1, Len(new))
                ELSE new
    IN  [s \in DOMAIN history \cup {sender} |->
            IF s = sender THEN kept ELSE history[s]]

Senders == {"0x1234", "0xabcd"}

MaxAppends == 102

\* The i-th transaction a test appends for a sender: amount float(i), the
\* risk score the tests use for that sender.
HistoryRecord(sender, i) ==
    [amount |-> i,
     risk_score |-> IF sender = "0x1234" THEN 20 ELSE 25,
     timestamp |-> "2024-01-01T00:00:00"]

(***************************************************************************)
(* The engine as a state machine                                           *)
(***************************************************************************)
Call(task, payment_id, risk_score, payment_data) ==
    [task |-> task, payment_id |-> payment_id, risk_score |-> risk_score,
     payment_data |-> payment_data]

InitEngine ==
    /\ pending_decisions = <<>>
    /\ result = NoCall
    /\ decisions = <<>>
    /\ drain_pc = "idle"
    /\ appended = <<>>
    /\ drained = <<>>
    /\ last_op = "init"
    /\ calls = 0

InitHistory ==
    /\ transaction_history = [s \in {} |-> <<>>]
    /\ history_log = [s \in Senders |-> <<>>]

InitOther ==
    /\ other_pending = <<>>
    /\ other_args = NoCall
    /\ other_result = NoCall
    /\ other_calls = 0

InitConfig ==
    /\ risk_threshold = DefaultRiskThreshold
    /\ other_threshold = DefaultRiskThreshold

Init ==
    /\ InitEngine
    /\ InitHistory
    /\ InitConfig
    /\ InitOther
    /\ args = NoCall

\* The engine as make_decision sees it.
Self ==
    [risk_threshold |-> risk_threshold, pending_decisions |-> pending_decisions]

OtherSelf ==
    [risk_threshold |-> other_threshold, pending_decisions |-> other_pending]

\* One make_decision call, start to return. The coroutine holds no await:
\* it runs while no other coroutine is between two of its own steps.
MakeDecision(task, payment_id, risk_score, payment_data) ==
    LET out == engine_make_decision(Self, payment_id, risk_score,
                                    payment_data)
    IN  /\ drain_pc = "idle" \/ AwaitsBetweenCopyAndClear
        /\ calls < MaxCalls
        /\ calls' = calls + 1
        /\ args' = Call(task, payment_id, risk_score, payment_data)
        /\ result' = out.returned
        /\ pending_decisions' = out.pending
        /\ appended' = appended \o SubSeq(out.pending,
                                           Len(pending_decisions) + 1,
                                           Len(out.pending))
        /\ last_op' = "make_decision"
        /\ drained' = ReturnedLists(drained, out.pending)
        /\ UNCHANGED <<decisions, drain_pc, history_vars, config_vars,
                       other_vars>>

\* get_pending_decisions up to line 211: the copy is taken.
DrainCopy ==
    /\ drain_pc = "idle"
    /\ Len(drained) < MaxDrains
    /\ decisions' = ListCopy(pending_decisions)
    /\ drain_pc' = "copied"
    /\ UNCHANGED <<pending_decisions, args, result, appended, drained,
                   last_op, calls, history_vars, config_vars, other_vars>>

\* get_pending_decisions, lines 212-213: the queue is cleared and the copy
\* returned.
DrainClear ==
    /\ drain_pc = "copied"
    /\ pending_decisions' = ListClear(pending_decisions)
    /\ drained' = ReturnedLists(Append(drained, decisions),
                                ListClear(pending_decisions))
    /\ decisions' = <<>>
    /\ drain_pc' = "idle"
    /\ last_op' = "get_pending_decisions"
    /\ UNCHANGED <<args, result, appended, calls, history_vars, config_vars,
                   other_vars>>

\* Producer tasks call make_decision; one consumer task drains.
Produce ==
    \E task \in Producers, risk_score \in QueueScores,
       payment_data \in QueuePayments :
        MakeDecision(task, PaymentOf(task), risk_score, payment_data)

Next == Produce \/ DrainCopy \/ DrainClear

Spec == Init /\ [][Next]_vars

\* The policy applied once, on a fresh engine, to every input of the grid.
InitPolicy ==
    /\ InitEngine
    /\ InitHistory
    /\ InitConfig
    /\ InitOther
    /\ args \in {Call("producer1", payment_id, risk_score, payment_data) :
                    payment_id \in PaymentIds, risk_score \in PolicyScores,
                    payment_data \in PolicyPayments}

Decide ==
    /\ calls = 0
    /\ MakeDecision(args.task, args.payment_id, args.risk_score,
                    args.payment_data)

NextPolicy == Decide \/ DrainCopy \/ DrainClear

SpecPolicy == InitPolicy /\ [][NextPolicy]_vars

\* The history store under appends for several senders.
UpdateTransactionHistory(sender) ==
    /\ Len(history_log[sender]) < MaxAppends
    /\ LET transaction == HistoryRecord(sender, Len(history_log[sender]))
       IN  /\ transaction_history' =
                _update_transaction_history(transaction_history, sender,
                                            transaction)
           /\ history_log' = [history_log EXCEPT ![sender] = Append(@, transaction)]
    /\ UNCHANGED <<engine_vars, config_vars, other_vars>>

NextHistory == \E sender \in Senders : UpdateTransactionHistory(sender)

SpecHistory == Init /\ [][NextHistory]_vars

\* Two engines, constructed with different risk_threshold and called
\* independently: the first one's queue keeps the decisions it made, the
\* second one's is drained, so that their queues come to differ.
Thresholds == {50, DefaultRiskThreshold}

TwinScores == {PyNum(10), PyNum(70)}
TwinPayments == {CleanPayment, CriticalPayment, MalformedPayment}

MaxOtherCalls == 2

InitTwo ==
    /\ InitEngine
    /\ InitHistory
    /\ InitOther
    /\ args = NoCall
    /\ risk_threshold \in Thresholds
    /\ other_threshold \in Thresholds \ {risk_threshold}

TwinProduce ==
    \E risk_score \in TwinScores, payment_data \in TwinPayments :
        MakeDecision("producer1", "0xa1", risk_score, payment_data)

OtherMakeDecision(payment_id, risk_score, payment_data) ==
    LET out == engine_make_decision(OtherSelf, payment_id, risk_score,
                                    payment_data)
    IN  /\ other_calls < MaxOtherCalls
        /\ other_calls' = other_calls + 1
        /\ other_args' = Call("producer1", payment_id, risk_score, payment_data)
        /\ other_result' = out.returned
        /\ other_pending' = out.pending
        /\ UNCHANGED <<engine_vars, history_vars, config_vars>>

OtherProduce ==
    \E risk_score \in TwinScores, payment_data \in TwinPayments :
        OtherMakeDecision("0xa1", risk_score, payment_data)

\* The second engine's get_pending_decisions, start to return.
OtherDrain ==
    /\ other_pending # <<>>
    /\ other_pending' = ListClear(other_pending)
    /\ UNCHANGED <<other_args, other_result, other_calls, engine_vars,
                   history_vars, config_vars>>

NextTwo == TwinProduce \/ OtherProduce \/ OtherDrain

SpecTwo == InitTwo /\ [][NextTwo]_vars

(***************************************************************************)
(* What the claims speak of                                                *)
(***************************************************************************)
RECURSIVE Flatten(_)
Flatten(lists) ==
    IF lists = <<>> THEN <<>> ELSE lists[1] \o Flatten(Tail(lists))

\* A make_decision call has returned.
Called == calls > 0

\* The threshold ladder as the specification tabulates it, for 0 <= s <= 100.
TableAction(s) ==
    CASE 0 <= s /\ s < 20 -> "approve"
      [] 20 <= s /\ s < 40 -> "approve"
      [] 40 <= s /\ s < 60 -> "verify_zk_proof"
      [] 60 <= s /\ s < 80 -> "enhance_privacy"
      [] 80 <= s /\ s <= 100 -> "flag"

ScoreInTable(risk_score) ==
    risk_score.type = "int" /\ 0 <= risk_score.v /\ risk_score.v <= 100

ScoreIsNumber(risk_score) == risk_score.type \in {"int", "float"}

\* The metadata values of the grid, sorted by hand into those whose
\* lower-cased text holds one of exploit, hack, drain, rug and the others.
CleanMetadatas == {PyDict(<<>>), PyNone, InvoiceMetadata, TwoKeyMetadata}
SuspiciousMetadatas ==
    {HackMetadata, UpperExploitMetadata, DrainKeyMetadata, ShrugMetadata}

IsDict(payment_data) == payment_data.type = "dict"

Has(payment_data, key) ==
    IsDict(payment_data) /\ key \in DOMAIN payment_data.items

Field(payment_data, key) == payment_data.items[key]

AmountOver(payment_data) ==
    /\ Has(payment_data, "amount")
    /\ Field(payment_data, "amount").type = "int"
    /\ Field(payment_data, "amount").v > 100000

AmountBenign(payment_data) ==
    Has(payment_data, "amount") =>
        /\ Field(payment_data, "amount").type = "int"
        /\ Field(payment_data, "amount").v <= 100000

MetadataSuspicious(payment_data) ==
    Has(payment_data, "metadata")
        /\ Field(payment_data, "metadata") \in SuspiciousMetadatas

MetadataBenign(payment_data) ==
    Has(payment_data, "metadata") => Field(payment_data, "metadata") \in CleanMetadatas

AmountIsNumber(payment_data) ==
    Has(payment_data, "amount") =>
        Field(payment_data, "amount").type \in {"int", "float"}

\* C1: for a score in [0, 100] and a payment with no critical pattern
\* (amount at most 100000, no suspicious keyword in the metadata) the
\* returned action is the one the threshold table gives, each of 20, 40, 60
\* and 80 counting to the range above it.
C1_ThresholdLadder ==
    (/\ Called
     /\ ScoreInTable(args.risk_score)
     /\ IsDict(args.payment_data)
     /\ AmountBenign(args.payment_data)
     /\ MetadataBenign(args.payment_data))
        => result.action = TableAction(args.risk_score.v)

C1_Witness ==
    /\ Called
    /\ args.risk_score = PyNum(40)
    /\ args.payment_data = PaymentData(PyNum(500), InvoiceMetadata, Timestamp)
    /\ result.action = "verify_zk_proof"

\* C2: whatever number the score is, an amount above 100000 or a suspicious
\* keyword in the lower-cased metadata makes the returned decision a flag,
\* and every decision the call queued is a flag; with a numeric amount the
\* call queued exactly the decision it returned. An amount of exactly
\* 100000 with clean metadata leaves the ladder's decision in place.
C2_CriticalOverride ==
    /\ (/\ Called
        /\ ScoreIsNumber(args.risk_score)
        /\ AmountOver(args.payment_data) \/ MetadataSuspicious(args.payment_data))
          => /\ result.action = "flag"
             /\ \A i \in 1..Len(appended) : appended[i].action = "flag"
             /\ AmountIsNumber(args.payment_data)
                   => /\ appended = <<result>>
                      /\ result.reason = "Critical risk pattern detected"
    /\ (/\ Called
        /\ ScoreInTable(args.risk_score)
        /\ Has(args.payment_data, "amount")
        /\ Field(args.payment_data, "amount") = PyNum(100000)
        /\ MetadataBenign(args.payment_data))
          => /\ result.action = TableAction(args.risk_score.v)
             /\ result.reason # "Critical risk pattern detected"
             /\ appended = <<result>>

C2_Witness ==
    /\ Called
    /\ args.risk_score = PyNum(0)
    /\ args.payment_data = PaymentData(PyNum(100001), InvoiceMetadata, Timestamp)
    /\ result.action = "flag"
    /\ appended = <<result>>

\* C3: once get_pending_decisions has returned and until the next
\* make_decision, the queue is empty and the list it returned is exactly what
\* was appended since the drain before it, so that the drains together have
\* returned everything appended; and a get_pending_decisions that returns
\* right after another one, no make_decision between, returns the empty list.
C3_DrainInvariant ==
    last_op = "get_pending_decisions" =>
        /\ pending_decisions = <<>>
        /\ drained # <<>>
        /\ LET n == Len(drained)
               earlier == Flatten(SubSeq(drained, 1, n - 1))
           IN  drained[n] = SubSeq(appended, Len(earlier) + 1, Len(appended))
        /\ Flatten(drained) = appended

C3_SecondDrainStep ==
    (/\ last_op = "get_pending_decisions"
     /\ drained' # drained)
        => drained' = Append(drained, <<>>)

C3_DrainReturnsAllThenEmpty ==
    []C3_DrainInvariant /\ [][C3_SecondDrainStep]_vars

C3_Witness ==
    /\ calls = 2
    /\ Len(appended) = 2
    /\ drained = <<appended, <<>>>>
    /\ last_op = "get_pending_decisions"

\* C4: with producers calling make_decision and the consumer draining in any
\* order the event loop allows, the drain results in order followed by what
\* is still queued are exactly the decisions appended, each once and in
\* append order; and while a drain stands between its copy and its clear the
\* queue is still what was copied, so nothing is appended into a drain.
C4_ExactlyOnceDelivery ==
    /\ Flatten(drained) \o pending_decisions = appended
    /\ drain_pc = "copied" => decisions = pending_decisions

C4_Witness ==
    /\ Len(drained) = 1
    /\ Len(drained[1]) = 1
    /\ drained[1][1].payment_id = "0xa1"
    /\ Len(pending_decisions) = 2
    /\ pending_decisions[1].payment_id = "0xb2"
    /\ pending_decisions[2].payment_id = "0xa1"
    /\ drain_pc = "copied"
    /\ decisions = pending_decisions

\* The text of the first exception Python raises: the AttributeError of
\* payment_data.get on None, else the TypeError of the first comparison that
\* cannot be made, risk_score < 20 before amount > 100000.
C5_Fails(call) ==
    \/ ~IsDict(call.payment_data)
    \/ ~ScoreIsNumber(call.risk_score)
    \/ ~AmountIsNumber(call.payment_data)

C5_ErrorText(call) ==
    IF ~IsDict(call.payment_data)
    THEN "'NoneType' object has no attribute 'get'"
    ELSE IF ~ScoreIsNumber(call.risk_score)
    THEN IF call.risk_score.type = "str"
         THEN "'<' not supported between instances of 'str' and 'int'"
         ELSE "'<' not supported between instances of 'NoneType' and 'int'"
    ELSE IF Field(call.payment_data, "amount").type = "str"
         THEN "'>' not supported between instances of 'str' and 'int'"
         ELSE "'>' not supported between instances of 'NoneType' and 'int'"

\* C5: a make_decision call in which a step raises (a payment_data that is
\* None, a risk score or an amount that cannot be compared with a number)
\* still returns: the decision
\* returned has action flag and as reason the error prefix followed by the
\* exception's message, never approve, verify_zk_proof or enhance_privacy.
C5_FailureReturnsFlag ==
    (Called /\ C5_Fails(args)) =>
        /\ result.action = "flag"
        /\ result.reason = "Error in decision making: " \o C5_ErrorText(args)
        /\ result.action \notin {"approve", "verify_zk_proof", "enhance_privacy"}

C5_Witness ==
    /\ Called
    /\ args.risk_score = PyNum(0)
    /\ args.payment_data =
           PaymentData(PyStr(<<"1", "0", "0", "0">>), InvoiceMetadata, Timestamp)
    /\ result.action = "flag"
    /\ result.reason = "Error in decision making: '>' not supported between instances of 'str' and 'int'"

\* C6: every make_decision call, the calls that end in the fallback flag
\* decision included, has appended the decision it returned to the queue
\* exactly once: as many decisions appended as calls made, the latest one the
\* decision just returned.
C6_EveryReturnedDecisionQueued ==
    /\ Len(appended) = calls
    /\ Called => appended[Len(appended)] = result

\* C7: every decision make_decision returns carries payment_id, risk_score,
\* timestamp, an action among the four and a reason that is not None.
C7_DecisionRecordComplete ==
    Called =>
        /\ {"payment_id", "risk_score", "timestamp", "action", "reason"}
               \subseteq DOMAIN result
        /\ result.action \in {"approve", "verify_zk_proof", "enhance_privacy", "flag"}
        /\ result.reason # None

\* C8: a sender's stored history never exceeds 100 records and is always the
\* newest 100 (or all, when fewer) of the records appended for that sender,
\* in append order; a sender nothing was appended for has no entry, and no
\* sender's history holds a record appended for another.
C8_HistoryBounded ==
    \A s \in Senders :
        LET log == history_log[s]
            n == Len(log)
        IN  IF n = 0 THEN s \notin DOMAIN transaction_history
            ELSE /\ s \in DOMAIN transaction_history
                 /\ Len(transaction_history[s]) <= 100
                 /\ transaction_history[s] =
                        SubSeq(log, (IF n > 100 THEN n - 100 ELSE 0) + 1, n)

C8_Witness ==
    /\ Len(history_log["0x1234"]) = 102
    /\ Len(transaction_history["0x1234"]) = 100
    /\ transaction_history["0x1234"][1].amount = 2
    /\ transaction_history["0x1234"][100].amount = 101
    /\ Len(history_log["0xabcd"]) = 3
    /\ Len(transaction_history["0xabcd"]) = 3

\* C9: a returned decision carries privacy_level, with value high, exactly
\* when its action is enhance_privacy; a flag decision carries none.
C9_PrivacyLevelOnlyWithEnhance ==
    Called =>
        /\ ("privacy_level" \in DOMAIN result) <=> (result.action = "enhance_privacy")
        /\ "privacy_level" \in DOMAIN result => result["privacy_level"] = "high"

\* payment_data with the defaults written in: amount 0, metadata {}.
C10_Filled(payment_data) ==
    PaymentData(DictGet(payment_data, "amount", PyNum(0)),
                DictGet(payment_data, "metadata", PyDict(<<>>)),
                DictGet(payment_data, "timestamp", Absent))

C10_Lacking(payment_data) ==
    \/ ~Has(payment_data, "timestamp")
    \/ ~Has(payment_data, "metadata")
    \/ ~Has(payment_data, "amount")
    \/ Field(payment_data, "metadata") = PyDict(<<>>)

\* C10: a payment_data that lacks timestamp, metadata or amount, or has empty
\* metadata, and whose remaining fields are well-formed and hold no critical
\* pattern, is decided without the error path: the decision is the threshold
\* table's for the score, not the override's, it is the one the payment with
\* amount 0 and metadata {} written in gets, its timestamp is None when the
\* timestamp is missing, and it is appended to the queue.
C10_MissingFieldsDegrade ==
    (/\ Called
     /\ ScoreInTable(args.risk_score)
     /\ IsDict(args.payment_data)
     /\ C10_Lacking(args.payment_data)
     /\ AmountBenign(args.payment_data)
     /\ MetadataBenign(args.payment_data))
        => /\ result.action = TableAction(args.risk_score.v)
           /\ result.reason \notin {"Critical risk pattern detected", None}
           /\ "risk_score" \in DOMAIN result
           /\ "timestamp" \in DOMAIN result
           /\ ~Has(args.payment_data, "timestamp") => result.timestamp = PyNone
           /\ result = make_decision(<<>>, args.payment_id, args.risk_score,
                                     C10_Filled(args.payment_data)).returned
           /\ appended = <<result>>

C10_Witness ==
    /\ Called
    /\ args.risk_score = PyNum(60)
    /\ IsDict(args.payment_data)
    /\ DOMAIN args.payment_data.items = {}
    /\ result.action = "enhance_privacy"
    /\ result.timestamp = PyNone
    /\ appended = <<result>>

\* What C11 compares of a decision: action, reason and privacy_level.
Outcome(decision) ==
    [action |-> decision.action,
     reason |-> decision.reason,
     privacy_level |-> IF "privacy_level" \in DOMAIN decision
                       THEN decision["privacy_level"] ELSE "absent"]

\* C11: two engines constructed with different risk_threshold, whose queues
\* hold different decisions (made earlier, or drained), return the same
\* action, reason and privacy_level whenever their latest make_decision
\* calls had the same payment id, risk score and payment_data.
C11_OutcomeDependsOnInputsOnly ==
    (/\ Called
     /\ other_calls > 0
     /\ args = other_args)
        => Outcome(result) = Outcome(other_result)

C11_Witness ==
    /\ Called
    /\ other_calls > 0
    /\ args = other_args
    /\ args.risk_score = PyNum(70)
    /\ args.payment_data = CleanPayment
    /\ risk_threshold # other_threshold
    /\ Len(pending_decisions) = 3
    /\ other_pending = <<>>
    /\ result.action = "enhance_privacy"
    /\ other_result.action = "enhance_privacy"

\* C12, step by step: a make_decision call leaves the entries already queued
\* in place and in order and adds at most the decision it returns, at the
\* tail; a get_pending_decisions call returns the queue as it stood, which is
\* the decisions appended since the drain before, in append order; and no
\* step changes a list an earlier get_pending_decisions returned.
C12_Step ==
    /\ calls' # calls =>
          LET n == Len(pending_decisions)
          IN  /\ Len(pending_decisions') \in {n, n + 1}
              /\ SubSeq(pending_decisions', 1, n) = pending_decisions
              /\ Len(pending_decisions') = n + 1
                    => pending_decisions'[n + 1] = result'
    /\ Len(drained') > Len(drained) =>
          /\ Len(drained') = Len(drained) + 1
          /\ drained'[Len(drained')] = pending_decisions
          /\ drained'[Len(drained')] =
                 SubSeq(appended, Len(Flatten(drained)) + 1, Len(appended))
    /\ Len(drained') >= Len(drained)
    /\ \A i \in 1..Len(drained) : drained'[i] = drained[i]

C12_QueueFrame == [][C12_Step]_vars

C12_Witness ==
    /\ Len(appended) = 3
    /\ appended[1] # appended[2]
    /\ drained = <<SubSeq(appended, 1, 2), <<appended[3]>>>>
    /\ pending_decisions = <<>>

====
